---- MODULE Spec2Model ----
(***************************************************************************)
(* Model of the VPN monitor (src/vpn_monitor/monitor.py), of the retrying  *)
(* Telegram notifier shared with src/pvz_landing/telegram.py, and of the   *)
(* VPN bot (src/vpn_monitor/vpn_bot.py).                                   *)
(*                                                                         *)
(* Spec          : successive runs of monitor.main over the state file     *)
(* SpecReconnect : reconnect_vpn(max_retries) on its own                   *)
(* SpecNotify    : one call of send_telegram_alert / send_telegram_message *)
(* SpecState     : save_state and load_state over any file content         *)
(* SpecProbe     : is_vpn_connected over any answers of its commands       *)
(* SpecBot       : the bot polling for updates and handling them           *)
(*                                                                         *)
(* Absent values (Python None) of time stamps are the empty sequence, a    *)
(* present time stamp t is <<t>>; an absent auth_url is the string None.   *)
(* The monitor's clock counts minutes, the notifier's clock counts eighths *)
(* of a second (so that the delays 10 * 1.5^k are whole numbers).          *)
(***************************************************************************)
EXTENDS Integers, Sequences, FiniteSets, TLC

VARIABLES
    \* ---- monitor: the world
    file,             \* content of STATE_FILE: Absent, Unusable or Object(members)
    now,              \* wall clock, minutes
    runs,             \* number of runs of main completed
    reads,            \* calls of load_state so far
    writes,           \* calls of save_state so far
    \* ---- monitor: locals of the current run of main
    pc,               \* "idle" | "reconnect" (main is inside reconnect_vpn)
    loaded,           \* the record as load_state returned it to this run
    state,            \* the dict `state`
    previous_status,
    vpn_connected,
    can_send_notification,
    sent,             \* notifications sent by this run, in order
    send_failed,      \* send_telegram_alert returned False for one of them
    cmds,             \* how often this run / call invoked each of: the netbird
                      \* commands "down", "up", "login", and "probe", a call
                      \* of is_vpn_connected (netbird status, then the pings)
    last_cmd,         \* the one invoked last ("" before the first)
    last_answer,      \* and what it came to
    exit_code,
    run_time,         \* clock value when the run evaluated the cooldown
    lastRun,          \* <<summary>> of the most recently completed run
    prevRun,          \* <<summary>> of the run before it
    \* ---- reconnect_vpn
    rc_pc,            \* "off" | "down" | "up" | "probe" | "login" | "final" | "ret"
    max_retries,
    attempt,
    auth_url,
    rc_result,        \* the returned tuple (success, attempt, auth_url)
    last_output,      \* output of the command issued last, when it was "up"
    \* ---- notifier
    n_pc,             \* "off" | "loop" | "ret"
    n_clock,          \* time.time(), eighths of a second
    n_start,          \* start_time
    n_max_time,
    n_attempt,
    n_delay,
    n_result,         \* the value returned
    n_elapsed,        \* `elapsed` of the latest loop iteration
    n_tries,          \* curl invocations so far
    n_ok,             \* some response carried ok = true
    n_late,           \* some curl was started with elapsed > max_time
    n_pauses,         \* the pauses slept so far, in order
    \* load_state and save_state called on their own
    st_pc,            \* "off", "put" (a file was found), "saved", "loaded"
    st_arg,           \* the record given to save_state
    st_wrote,         \* save_state was called and its write went through
    st_ret,           \* what load_state returned
    \* is_vpn_connected called on its own
    probe_pc,         \* "off", "done"
    probe_status,     \* what `netbird status` came to
    probe_pings,      \* what the ping of each host came to
    probe_ret,        \* the value returned
    \* the VPN bot (vpn_bot.py)
    bot_offset,       \* TelegramBot.offset
    bot_server,       \* updates the server holds for the bot, oldest first
    bot_next_id,      \* update_id the server gives to the next update
    bot_batch,        \* updates of the fetched batch not yet processed
    bot_handled,      \* update_ids given to handle_message, in order
    bot_last,         \* <<>> or <<what handling the latest message came to>>
    bot_raised,       \* update_ids whose handling raised
    bot_abandoned,    \* update_ids left unprocessed in a batch by a raise
    enc_file,         \* content of ~/.encashment_last_run (Absent when missing)
    enc_today,        \* the Tashkent date, as a day number
    enc_hour,         \* the Tashkent hour
    enc_pc,           \* "idle" or "loop": position of the encashment sender
    enc_chats,        \* the delivery-point types with a chat id in this run
    enc_missed,       \* the dates of missed_dates not yet gone through
    enc_success,      \* overall_success
    enc_exit,         \* <<>> or <<return value of the latest run>>
    enc_last,         \* <<>> or <<what the latest date of the loop came to>>
    enc_failed,       \* the dates whose date_success was False in the latest run
    lo_file,          \* content of ~/.late_opening_last_run
    lo_today,         \* the Tashkent date, as a day number
    lo_minutes,       \* the Tashkent time of day in minutes
    lo_runs,          \* runs of the late-opening sender so far
    lo_last,          \* <<>> or <<what the latest run came to>>
    lo_delivered      \* per day and type: final reports delivered by runs without --force

mainVars == <<file, now, runs, reads, writes, pc, loaded, state, previous_status,
              vpn_connected, can_send_notification, sent, send_failed, exit_code,
              run_time, lastRun, prevRun>>
rcVars == <<rc_pc, max_retries, attempt, auth_url, rc_result, last_output>>
nVars == <<n_pc, n_clock, n_start, n_max_time, n_attempt, n_delay, n_result,
           n_elapsed, n_tries, n_ok, n_late, n_pauses>>
cmdVars == <<cmds, last_cmd, last_answer>>
stVars == <<st_pc, st_arg, st_wrote, st_ret>>
probeVars == <<probe_pc, probe_status, probe_pings, probe_ret>>
botVars == <<bot_offset, bot_server, bot_next_id, bot_batch, bot_handled, bot_last,
            bot_raised, bot_abandoned>>
encVars == <<enc_file, enc_today, enc_hour, enc_pc, enc_chats, enc_missed, enc_success,
            enc_exit, enc_last, enc_failed>>
loVars == <<lo_file, lo_today, lo_minutes, lo_runs, lo_last, lo_delivered>>
otherVars == <<stVars, probeVars, botVars, encVars, loVars>>
vars == <<mainVars, cmdVars, rcVars, nVars, otherVars>>

----------------------------------------------------------------------------
(* Bounds of the model *)

MaxRuns == 3            \* runs of main explored
MaxTime == 45           \* the clock stops advancing here (minutes)
TickMinutes == 15       \* granularity of the monitor's clock
MaxRetriesBound == 3    \* largest max_retries given to reconnect_vpn alone
MaxStamp == 1           \* latest timestamp in a record given to save_state
MaxCount == 1           \* largest counter in a record given to save_state
MaxUpdates == 2         \* updates sent to the bot
MaxDay == 3             \* days the report senders are followed over
MaxLoRuns == 2          \* runs of the late-opening sender

(* Program constants *)

CooldownMinutes == 30   \* should_send_notification(state, cooldown_minutes=30)
MainMaxRetries == 3     \* reconnect_vpn(max_retries=3)

None == "None"
UpUrl == "https://login.example/device?user_code=ABCD-1234"
LoginUrl == "https://login.example/device?user_code=WXYZ-5678"

----------------------------------------------------------------------------
(* External commands: what the environment can answer *)

\* subprocess.run either returns (exit code 0 / non-zero) or raises
\* TimeoutExpired or another exception (FileNotFoundError, OSError ...)
CmdOutcomes == {"ok", "nonzero", "timeout", "error"}

\* stdout of `netbird status`, as the set of status words it holds
StatusTexts == { {}, {"Connected"}, {"Online"}, {"Disconnected"}, {"NeedsLogin"},
                 {"Disconnected", "Online"} }

\* `netbird status` returns with an exit code and its stdout, or
\* subprocess.run raises: TimeoutExpired, FileNotFoundError, anything else
StatusRaised == {"timeout", "notfound", "error"}
StatusOutcomes ==
    [how : {"returned"}, returncode : {0, 1}, stdout : StatusTexts]
    \cup [how : StatusRaised, returncode : {0}, stdout : {{}}]

\* str.lower() of one word
LowerWord(w) ==
    CASE w = "Connected" -> "connected"
      [] w = "Online" -> "online"
      [] w = "Disconnected" -> "disconnected"
      [] w = "NeedsLogin" -> "needslogin"
      [] OTHER -> w

\* result.stdout.lower()
Lower(text) == {LowerWord(w) : w \in text}

\* `needle in output`, a substring test: "disconnected" holds "connected"
Contains(needle, text) ==
    \E w \in text : w = needle \/ (needle = "connected" /\ w = "disconnected")

\* one ping per host of VPN_HOSTS: exit 0, non-zero exit, TimeoutExpired,
\* another exception
PingOutcomes == {"ok", "nonzero", "timeout", "error"}
VPN_HOSTS == 1..2
PingResults == [VPN_HOSTS -> PingOutcomes]

\* stdout+stderr of `netbird up`, as the set of fragments it contains
UpOutputs == { {}, {"SSO login"}, {"user_code"}, {UpUrl}, {"SSO login", UpUrl} }

\* `netbird login`: prints a matching URL, prints none, times out, fails
LoginOutcomes == {"url", "nourl", "timeout", "error"}

\* `needle in output` for the two markers: a login URL contains "user_code"
InOutput(needle, output) ==
    \/ needle \in output
    \/ needle = "user_code" /\ (UpUrl \in output \/ LoginUrl \in output)

\* re.search(r'(https://[^\s]+user_code=[A-Z0-9-]+)', output)
SearchUrl(output) ==
    IF UpUrl \in output THEN UpUrl
    ELSE IF LoginUrl \in output THEN LoginUrl
    ELSE None

\* lines 62-88
check_vpn_netbird_status(so) ==
    /\ so.how = "returned"
    /\ so.returncode = 0
    /\ Contains("connected", Lower(so.stdout)) \/ Contains("online", Lower(so.stdout))

\* pings the hosts in order, returns True at the first that answers
check_vpn_connectivity(pings) == \E h \in VPN_HOSTS : pings[h] = "ok"

\* lines 113-121; both checks are always made (no short circuit before `and`)
is_vpn_connected_either(so, pings) ==
    check_vpn_netbird_status(so) \/ check_vpn_connectivity(pings)
is_vpn_connected(so, pings) ==
    check_vpn_netbird_status(so) /\ check_vpn_connectivity(pings)

get_auth_url(lo) == IF lo = "url" THEN LoginUrl ELSE None

\* the values the two calls can return, over everything the commands can answer
ProbeResults == {is_vpn_connected(so, pings) : so \in StatusOutcomes, pings \in PingResults}
AuthUrlResults == {get_auth_url(lo) : lo \in LoginOutcomes}

Count(s, x) == Cardinality({i \in 1..Len(s) : s[i] = x})

NoCmds == [down |-> 0, up |-> 0, probe |-> 0, login |-> 0]

\* subprocess.run([...]) / is_vpn_connected() is invoked once more
Issued(c, answer) ==
    /\ cmds' = [cmds EXCEPT ![c] = @ + 1]
    /\ last_cmd' = c
    /\ last_answer' = answer

----------------------------------------------------------------------------
(* reconnect_vpn *)

Result(success, att, url) == [success |-> success, attempt |-> att, auth_url |-> url]
NoResult == Result(FALSE, 0, None)

\* for attempt in range(1, max_retries + 1): the next value of the loop variable
NextAttemptStuck(att) == att
NextAttempt(att) == att + 1

\* the `if url_match:` of the "up" output check
UrlFoundNever(output) == FALSE
UrlFound(output) ==
    /\ InOutput("SSO login", output) \/ InOutput("user_code", output)
    /\ SearchUrl(output) # None

\* line 208: `if result_up.returncode != 0:` ... `continue`
UpFailedIgnored(o) == FALSE
UpFailed(o) == o = "nonzero"

\* entering the function: auth_url = None, then the loop head
RcEnter(mr) ==
    /\ max_retries' = mr
    /\ attempt' = 1
    /\ auth_url' = None
    /\ rc_result' = NoResult
    /\ last_output' = {}
    /\ rc_pc' = IF 1 <= mr THEN "down" ELSE "final"

\* end of the loop body (or `continue`): back to the loop head
RcNextIteration ==
    /\ attempt' = NextAttempt(attempt)
    /\ rc_pc' = IF NextAttempt(attempt) <= max_retries THEN "down" ELSE "final"

\* `except subprocess.TimeoutExpired:` of the loop body
RcOnTimeout ==
    IF attempt = max_retries
    THEN /\ rc_pc' = "login"
         /\ UNCHANGED attempt
    ELSE RcNextIteration

RcReturn(success, att, url) ==
    /\ rc_result' = Result(success, att, url)
    /\ rc_pc' = "ret"

\* lines 173-186: netbird down
RcDown(o) ==
    /\ rc_pc = "down"
    /\ Issued("down", o)
    /\ last_output' = {}
    /\ CASE o \in {"ok", "nonzero"} -> rc_pc' = "up" /\ UNCHANGED attempt
         [] o = "timeout" -> RcOnTimeout
         [] OTHER -> RcNextIteration
    /\ UNCHANGED <<max_retries, auth_url, rc_result>>

\* lines 188-214: netbird up and the inspection of its output
RcUp(o, output) ==
    /\ rc_pc = "up"
    /\ Issued("up", o)
    /\ CASE o = "timeout" ->
              /\ RcOnTimeout
              /\ last_output' = {}
              /\ UNCHANGED <<auth_url, rc_result>>
         [] o = "error" ->
              /\ RcNextIteration
              /\ last_output' = {}
              /\ UNCHANGED <<auth_url, rc_result>>
         [] OTHER ->
              /\ last_output' = output
              /\ IF UrlFound(output)
                 THEN /\ auth_url' = SearchUrl(output)
                      /\ RcReturn(FALSE, attempt, SearchUrl(output))
                      /\ UNCHANGED attempt
                 ELSE /\ IF UpFailed(o)
                         THEN RcNextIteration
                         ELSE rc_pc' = "probe" /\ UNCHANGED attempt
                      /\ UNCHANGED <<auth_url, rc_result>>
    /\ UNCHANGED max_retries

\* lines 216-221 and 235-237: the probe after "up"
RcProbe(connected) ==
    /\ rc_pc = "probe"
    /\ Issued("probe", IF connected THEN "connected" ELSE "disconnected")
    /\ last_output' = {}
    /\ IF connected
       THEN RcReturn(TRUE, attempt, None) /\ UNCHANGED attempt
       ELSE RcNextIteration /\ UNCHANGED rc_result
    /\ UNCHANGED <<max_retries, auth_url>>

\* lines 226-231: get_auth_url() inside the timeout handler of the last attempt
RcTimeoutLogin(url) ==
    /\ rc_pc = "login"
    /\ Issued("login", IF url # None THEN "url" ELSE "nourl")
    /\ last_output' = {}
    /\ auth_url' = url
    /\ IF url # None
       THEN RcReturn(FALSE, attempt, url) /\ UNCHANGED attempt
       ELSE RcNextIteration /\ UNCHANGED rc_result
    /\ UNCHANGED max_retries

\* lines 239-248: after the loop
RcFinal(url) ==
    /\ rc_pc = "final"
    /\ last_output' = {}
    /\ IF auth_url = None
       THEN /\ Issued("login", IF url # None THEN "url" ELSE "nourl")
            /\ auth_url' = url
            /\ RcReturn(FALSE, max_retries, url)
       ELSE /\ RcReturn(FALSE, max_retries, auth_url)
            /\ UNCHANGED <<cmds, last_cmd, last_answer, auth_url>>
    /\ UNCHANGED <<max_retries, attempt>>

RcStep ==
    \/ \E o \in CmdOutcomes : RcDown(o)
    \/ \E o \in CmdOutcomes, output \in UpOutputs : RcUp(o, output)
    \/ \E connected \in ProbeResults : RcProbe(connected)
    \/ \E url \in AuthUrlResults : RcTimeoutLogin(url)
    \/ \E url \in AuthUrlResults : RcFinal(url)

----------------------------------------------------------------------------
(* The state file *)

default_state ==
    [last_check |-> <<>>,
     last_status |-> "unknown",
     last_notification_time |-> <<>>,
     reconnect_count |-> 0,
     consecutive_failures |-> 0]

\* What STATE_FILE holds: nothing (no such file), something open() or
\* json.load() or the ** of line 332 raises on (unreadable, not JSON, JSON
\* that is not an object), or a JSON object given by its members.
Absent == <<>>
Unusable == <<"unusable">>
Object(members) == <<"object", members>>

\* JSON values: null, a string, a number
JNull == <<"null">>
JString(s) == <<"string", s>>
JNumber(n) == <<"number", n>>

TimeKeys == {"last_check", "last_notification_time"}
TextKeys == {"last_status"}

\* json.dump of one value of the record: None -> null, the isoformat text
\* and the status -> a string, a counter -> a number
Encode(k, v) ==
    IF k \in TimeKeys
    THEN IF v = <<>> THEN JNull ELSE JString(v)
    ELSE IF k \in TextKeys THEN JString(v) ELSE JNumber(v)

\* json.load of one value
Decode(j) == IF j = JNull THEN <<>> ELSE j[2]

json_dump(st) == [k \in DOMAIN st |-> Encode(k, st[k])]
json_load(members) == [k \in DOMAIN members |-> Decode(members[k])]

\* {**a, **b}: the keys of both, b's value where both have one
MergeDefaultsWin(a, b) ==
    [k \in DOMAIN a \cup DOMAIN b |-> IF k \in DOMAIN a THEN a[k] ELSE b[k]]
Merge(a, b) ==
    [k \in DOMAIN a \cup DOMAIN b |-> IF k \in DOMAIN b THEN b[k] ELSE a[k]]

\* lines 315-335; never raises: every exception ends in default_state
load_state_forgets(f) == default_state
load_state_unmerged(f) ==
    IF f = Absent \/ f = Unusable
    THEN default_state
    ELSE json_load(f[2])
load_state(f) ==
    IF f = Absent \/ f = Unusable
    THEN default_state
    ELSE Merge(default_state, json_load(f[2]))

\* lines 338-345 when the write goes through: json.dump of the whole dict
save_state(st) == Object(json_dump(st))

\* line 508 in main: the one call of save_state
PersistNothing(st) == UNCHANGED <<file, writes>>
Persist(st) ==
    /\ file' = save_state(st)
    /\ writes' = writes + 1

\* elapsed minutes since last_notification_time >= cooldown_minutes; the
\* stored value was written by datetime.now().isoformat(), so fromisoformat
\* parses it and the `except` branch (return True) is not taken
should_send_notification_always(st, cooldown_minutes, t) == TRUE
should_send_notification(st, cooldown_minutes, t) ==
    IF st.last_notification_time = <<>>
    THEN TRUE
    ELSE t - st.last_notification_time[1] >= cooldown_minutes

----------------------------------------------------------------------------
(* main: the branches, as functions of the record; t is datetime.now() after
   the notifier returned.  Each yields the new record and what was sent. *)

Outcome(st, notes) == [state |-> st, sent |-> notes]

\* lines 431-442: the probe says connected
OnConnectedKeepsFailures(st, prev, t) ==
    LET recovered == prev \in {"disconnected", "auth_required"}
        s1 == IF recovered
              THEN [st EXCEPT !.last_notification_time = <<t>>]
              ELSE st
    IN Outcome([s1 EXCEPT !.last_status = "connected", !.reconnect_count = 0],
               IF recovered THEN <<"recovered">> ELSE <<>>)
OnConnectedStampless(st, prev, t) ==
    LET recovered == prev \in {"disconnected", "auth_required"}
        s1 == IF recovered
              THEN [st EXCEPT !.last_notification_time = <<>>,
                              !.consecutive_failures = 0]
              ELSE st
    IN Outcome([s1 EXCEPT !.last_status = "connected", !.reconnect_count = 0],
               IF recovered THEN <<"recovered">> ELSE <<>>)
OnConnectedAnyPrevious(st, prev, t) ==
    Outcome([st EXCEPT !.last_notification_time = <<t>>,
                       !.consecutive_failures = 0,
                       !.last_status = "connected",
                       !.reconnect_count = 0],
            <<"recovered">>)
OnConnected(st, prev, t) ==
    LET recovered == prev \in {"disconnected", "auth_required"}
        s1 == IF recovered
              THEN [st EXCEPT !.last_notification_time = <<t>>,
                              !.consecutive_failures = 0]
              ELSE st
    IN Outcome([s1 EXCEPT !.last_status = "connected", !.reconnect_count = 0],
               IF recovered THEN <<"recovered">> ELSE <<>>)

\* line 452: after auth_required no reconnection is tried
OnlyFetchUrlWhenDown(prev) == prev \in {"auth_required", "disconnected"}
OnlyFetchUrl(prev) == prev = "auth_required"

\* lines 452-460: previous status auth_required, only a fresh URL is fetched
OnAuthRequiredUngated(st, can_send, url, t) ==
    LET notify == url # None
        s1 == IF notify THEN [st EXCEPT !.last_notification_time = <<t>>] ELSE st
    IN Outcome([s1 EXCEPT !.consecutive_failures = @ + 1],
               IF notify THEN <<"auth_required">> ELSE <<>>)
OnAuthRequiredUncounted(st, can_send, url, t) ==
    LET notify == url # None /\ can_send
        s1 == IF notify THEN [st EXCEPT !.last_notification_time = <<t>>] ELSE st
    IN Outcome(s1, IF notify THEN <<"auth_required">> ELSE <<>>)
OnAuthRequiredSilent(st, can_send, url, t) ==
    Outcome([st EXCEPT !.consecutive_failures = @ + 1], <<>>)
OnAuthRequiredUnstamped(st, can_send, url, t) ==
    Outcome([st EXCEPT !.consecutive_failures = @ + 1],
            IF url # None /\ can_send THEN <<"auth_required">> ELSE <<>>)
OnAuthRequired(st, can_send, url, t) ==
    LET notify == url # None /\ can_send
        s1 == IF notify THEN [st EXCEPT !.last_notification_time = <<t>>] ELSE st
    IN Outcome([s1 EXCEPT !.consecutive_failures = @ + 1],
               IF notify THEN <<"auth_required">> ELSE <<>>)

\* lines 464-467: the "disconnect" notice before reconnecting
DisconnectNoticeUngated(st, can_send, prev, t) ==
    LET notify == prev # "disconnected"
    IN Outcome(IF notify THEN [st EXCEPT !.last_notification_time = <<t>>] ELSE st,
               IF notify THEN <<"disconnect">> ELSE <<>>)
DisconnectNoticeRepeats(st, can_send, prev, t) ==
    Outcome(IF can_send THEN [st EXCEPT !.last_notification_time = <<t>>] ELSE st,
            IF can_send THEN <<"disconnect">> ELSE <<>>)
DisconnectNotice(st, can_send, prev, t) ==
    LET notify == can_send /\ prev # "disconnected"
    IN Outcome(IF notify THEN [st EXCEPT !.last_notification_time = <<t>>] ELSE st,
               IF notify THEN <<"disconnect">> ELSE <<>>)

\* lines 472-502: what main does with the tuple reconnect_vpn returned
OnReconnectResultQuietFailure(st, can_send, res, t) ==
    IF res.success
    THEN Outcome([st EXCEPT !.last_notification_time = <<t>>,
                            !.last_status = "connected",
                            !.reconnect_count = @ + 1,
                            !.consecutive_failures = 0],
                 <<"reconnect_success">>)
    ELSE IF res.auth_url # None
    THEN Outcome([(IF can_send THEN [st EXCEPT !.last_notification_time = <<t>>] ELSE st)
                    EXCEPT !.last_status = "auth_required",
                           !.consecutive_failures = @ + 1],
                 IF can_send THEN <<"auth_required">> ELSE <<>>)
    ELSE Outcome([st EXCEPT !.last_status = "disconnected",
                            !.consecutive_failures = @ + 1],
                 <<>>)
OnReconnectResultKeepsStatus(st, can_send, res, t) ==
    IF res.success
    THEN Outcome([st EXCEPT !.last_notification_time = <<t>>,
                            !.last_status = "connected",
                            !.reconnect_count = @ + 1,
                            !.consecutive_failures = 0],
                 <<"reconnect_success">>)
    ELSE IF res.auth_url # None
    THEN Outcome([(IF can_send THEN [st EXCEPT !.last_notification_time = <<t>>] ELSE st)
                    EXCEPT !.last_status = "auth_required",
                           !.consecutive_failures = @ + 1],
                 IF can_send THEN <<"auth_required">> ELSE <<>>)
    ELSE Outcome([(IF can_send THEN [st EXCEPT !.last_notification_time = <<t>>] ELSE st)
                    EXCEPT !.consecutive_failures = @ + 1],
                 IF can_send THEN <<"reconnect_failure">> ELSE <<>>)
OnReconnectResult(st, can_send, res, t) ==
    IF res.success
    THEN Outcome([st EXCEPT !.last_notification_time = <<t>>,
                            !.last_status = "connected",
                            !.reconnect_count = @ + 1,
                            !.consecutive_failures = 0],
                 <<"reconnect_success">>)
    ELSE IF res.auth_url # None
    THEN Outcome([(IF can_send THEN [st EXCEPT !.last_notification_time = <<t>>] ELSE st)
                    EXCEPT !.last_status = "auth_required",
                           !.consecutive_failures = @ + 1],
                 IF can_send THEN <<"auth_required">> ELSE <<>>)
    ELSE Outcome([(IF can_send THEN [st EXCEPT !.last_notification_time = <<t>>] ELSE st)
                    EXCEPT !.last_status = "disconnected",
                           !.consecutive_failures = @ + 1],
                 IF can_send THEN <<"reconnect_failure">> ELSE <<>>)

\* line 513
ExitCode(connected) == IF connected THEN 0 ELSE 1

\* what a completed run leaves behind once its process has exited:
\* st0 the record it loaded, connected its probe, can its cooldown verdict,
\* t0 the clock at that verdict, notes what it sent, c what it invoked,
\* res what reconnect_vpn (or get_auth_url on the branch of line 452) returned
\* (NoResult when neither was called), bad whether a notifier call returned False;
\* Finish adds `saved`, the dict the run handed to save_state
Summary(st0, connected, can, t0, notes, c, res, bad) ==
    [loaded_status |-> st0.last_status,
     loaded_time |-> st0.last_notification_time,
     loaded_failures |-> st0.consecutive_failures,
     loaded_count |-> st0.reconnect_count,
     probe |-> connected,
     can_send |-> can,
     time |-> t0,
     sent |-> notes,
     downs |-> c.down,
     ups |-> c.up,
     logins |-> c.login,
     success |-> res.success,
     got_url |-> res.auth_url # None,
     failed |-> bad]

\* what is remembered of the run before the last
Brief(run) ==
    IF run = <<>> THEN <<>>
    ELSE <<[loaded_status |-> run[1].loaded_status,
            saved |-> run[1].saved,
            probe |-> run[1].probe,
            time |-> run[1].time,
            sent |-> run[1].sent]>>

----------------------------------------------------------------------------
(* main, step by step *)

\* the notifier returns after d minutes; nothing is waited for when nothing is sent
After(notes, d) == IF notes = <<>> THEN now ELSE now + d

NotifyDurations == {0, TickMinutes}

\* lines 504-513: last_check, save_state, the exit code; the process exits
\* and its locals are gone.  st, t: the record and the clock at line 504.
Finish(st, t, connected, summary) ==
    /\ Persist([st EXCEPT !.last_check = <<t>>])
    /\ lastRun' = <<[saved |-> [st EXCEPT !.last_check = <<t>>]] @@ summary>>
    /\ exit_code' = ExitCode(connected)
    /\ now' = t
    /\ prevRun' = Brief(lastRun)
    /\ runs' = runs + 1
    /\ pc' = "idle"
    /\ loaded' = default_state
    /\ state' = default_state
    /\ previous_status' = "unknown"
    /\ vpn_connected' = FALSE
    /\ can_send_notification' = FALSE
    /\ sent' = <<>>
    /\ send_failed' = FALSE
    /\ run_time' = 0
    /\ cmds' = NoCmds
    /\ last_cmd' = ""
    /\ last_answer' = ""
    /\ rc_pc' = "off"
    /\ max_retries' = 0
    /\ attempt' = 0
    /\ auth_url' = None
    /\ rc_result' = NoResult
    /\ last_output' = {}

\* lines 418-470: load, probe, and everything up to the call of reconnect_vpn;
\* on the branches that do not reconnect, the whole of main
\* delivered: what the notifier returns if this stretch calls it
Failed(notes, delivered) == notes # <<>> /\ ~delivered

MainStart(connected, url, d, delivered) ==
    /\ pc = "idle"
    /\ runs < MaxRuns
    /\ now + d <= MaxTime
    /\ reads' = reads + 1
    /\ LET st0 == load_state(file)
           prev == st0.last_status
           can == should_send_notification(st0, CooldownMinutes, now)
       IN IF connected
          THEN LET r == OnConnected(st0, prev, now + d)
               IN Finish(r.state, After(r.sent, d), connected,
                         Summary(st0, connected, FALSE, now, r.sent,
                                 [NoCmds EXCEPT !.probe = 1], NoResult,
                                 Failed(r.sent, delivered)))
          ELSE IF OnlyFetchUrl(prev)
          THEN LET r == OnAuthRequired(st0, can, url, now + d)
               IN Finish(r.state, After(r.sent, d), connected,
                         Summary(st0, connected, can, now, r.sent,
                                 [NoCmds EXCEPT !.probe = 1, !.login = 1],
                                 Result(FALSE, 0, url),
                                 Failed(r.sent, delivered)))
          ELSE LET r == DisconnectNotice(st0, can, prev, now + d)
               IN /\ vpn_connected' = connected
                  /\ previous_status' = prev
                  /\ run_time' = now
                  /\ loaded' = st0
                  /\ state' = r.state
                  /\ sent' = r.sent
                  /\ send_failed' = Failed(r.sent, delivered)
                  /\ now' = After(r.sent, d)
                  /\ cmds' = [NoCmds EXCEPT !.probe = 1]
                  /\ last_cmd' = "probe"
                  /\ last_answer' = "disconnected"
                  /\ can_send_notification' = can
                  /\ pc' = "reconnect"
                  /\ RcEnter(MainMaxRetries)
                  /\ UNCHANGED <<file, writes, runs, exit_code, lastRun, prevRun>>
    /\ UNCHANGED <<nVars, otherVars>>

\* lines 472-513: reconnect_vpn has returned; the rest of main
MainAfterReconnect(d, delivered) ==
    /\ pc = "reconnect"
    /\ rc_pc = "ret"
    /\ now + d <= MaxTime
    /\ reads' = reads
    /\ LET r == OnReconnectResult(state, can_send_notification, rc_result, now + d)
       IN Finish(r.state, After(r.sent, d), vpn_connected,
                 Summary(loaded, vpn_connected, can_send_notification,
                         run_time, sent \o r.sent, cmds, rc_result,
                         send_failed \/ Failed(r.sent, delivered)))
    /\ UNCHANGED <<nVars, otherVars>>

\* time passes between two runs (the scheduler's interval)
Tick ==
    /\ pc = "idle"
    /\ runs < MaxRuns
    /\ now + TickMinutes <= MaxTime
    /\ now' = now + TickMinutes
    /\ UNCHANGED <<file, runs, reads, writes, pc, loaded, state, previous_status,
                   vpn_connected, can_send_notification, sent, send_failed,
                   cmdVars, exit_code, run_time, lastRun, prevRun, rcVars, nVars,
                   otherVars>>

\* a step of reconnect_vpn, called from main or alone
RcAction == RcStep /\ UNCHANGED <<mainVars, nVars, otherVars>>

\* reconnect_vpn(mr) called on its own
RcCall(mr) ==
    /\ pc = "idle"
    /\ rc_pc \in {"off", "ret"}
    /\ cmds' = NoCmds
    /\ last_cmd' = ""
    /\ last_answer' = ""
    /\ RcEnter(mr)
    /\ UNCHANGED <<mainVars, nVars, otherVars>>

----------------------------------------------------------------------------
Init ==
    /\ file = Absent
    /\ now = 0
    /\ runs = 0
    /\ reads = 0
    /\ writes = 0
    /\ pc = "idle"
    /\ loaded = default_state
    /\ state = default_state
    /\ previous_status = "unknown"
    /\ vpn_connected = FALSE
    /\ can_send_notification = FALSE
    /\ sent = <<>>
    /\ send_failed = FALSE
    /\ cmds = NoCmds
    /\ last_cmd = ""
    /\ last_answer = ""
    /\ exit_code = 0
    /\ run_time = 0
    /\ lastRun = <<>>
    /\ prevRun = <<>>
    /\ rc_pc = "off"
    /\ max_retries = 0
    /\ attempt = 0
    /\ auth_url = None
    /\ rc_result = NoResult
    /\ last_output = {}
    /\ n_pc = "off"
    /\ n_clock = 0
    /\ n_start = 0
    /\ n_max_time = 0
    /\ n_attempt = 0
    /\ n_delay = 0
    /\ n_result = FALSE
    /\ n_elapsed = 0
    /\ n_tries = 0
    /\ n_ok = FALSE
    /\ n_late = FALSE
    /\ n_pauses = <<>>
    /\ st_pc = "off"
    /\ st_arg = default_state
    /\ st_wrote = FALSE
    /\ st_ret = default_state
    /\ probe_pc = "off"
    /\ probe_status = [how |-> "error", returncode |-> 0, stdout |-> {}]
    /\ probe_pings = [h \in VPN_HOSTS |-> "error"]
    /\ probe_ret = FALSE
    /\ bot_offset = 0
    /\ bot_server = <<>>
    /\ bot_next_id = 1
    /\ bot_batch = <<>>
    /\ bot_handled = <<>>
    /\ bot_last = <<>>
    /\ bot_raised = {}
    /\ bot_abandoned = {}
    /\ enc_file = <<>>
    /\ enc_today = 1
    /\ enc_hour = 9
    /\ enc_pc = "idle"
    /\ enc_chats = {}
    /\ enc_missed = <<>>
    /\ enc_success = TRUE
    /\ enc_exit = <<>>
    /\ enc_last = <<>>
    /\ enc_failed = {}
    /\ lo_file = <<>>
    /\ lo_today = 1
    /\ lo_minutes = 11 * 60 - 1
    /\ lo_runs = 0
    /\ lo_last = <<>>
    /\ lo_delivered = [k \in (1..MaxDay) \X {"FRANCHISE", "DELIVERY_POINT"} |-> 0]

Next ==
    \/ Tick
    \/ \E connected \in ProbeResults, url \in AuthUrlResults,
          d \in NotifyDurations, delivered \in BOOLEAN :
            MainStart(connected, url, d, delivered)
    \/ RcAction
    \/ \E d \in NotifyDurations, delivered \in BOOLEAN :
            MainAfterReconnect(d, delivered)

Spec == Init /\ [][Next]_vars

NextReconnect ==
    \/ \E mr \in 0..MaxRetriesBound : RcCall(mr)
    \/ RcAction

SpecReconnect == Init /\ [][NextReconnect]_vars

\* a started command returns (every subprocess.run carries a timeout) and the
\* sleeps end, so reconnect_vpn keeps taking steps while it has one to take
SpecReconnectFair == SpecReconnect /\ WF_vars(RcAction)

----------------------------------------------------------------------------
(* The notifier: send_telegram_alert (monitor.py) and send_telegram_message
   (pvz_landing/telegram.py) run the same loop; only the former first checks
   the credentials.  Times are in eighths of a second. *)

Seconds(n) == 8 * n

InitialDelaySeconds == 10      \* delay = 10
MaxDelaySeconds == 60          \* max_delay = 60
DefaultMaxTimeSeconds == 900   \* max_time: int = 900
CurlTimeoutSeconds == 60       \* subprocess.run(..., timeout=60)

\* the budgets tried: none at all, one pause long, the default
NMaxTimes == {Seconds(0), Seconds(InitialDelaySeconds), Seconds(DefaultMaxTimeSeconds)}

\* what one curl call can come to: a response with ok = true, a response
\* without it, TimeoutExpired, output that is not JSON, any other exception
Responses == {"ok", "notok", "timeout", "badjson", "error"}

\* how long the curl call took; a timed-out one took the whole timeout
CurlDurations(resp) ==
    IF resp = "timeout" THEN {Seconds(CurlTimeoutSeconds)}
    ELSE {0, Seconds(CurlTimeoutSeconds)}

\* if elapsed > max_time
BudgetExceededAt(elapsed, max_time) == elapsed >= max_time
BudgetExceeded(elapsed, max_time) == elapsed > max_time

\* response.get('ok', False), reached only when json.loads succeeded
ResponseOkAlways(resp) == resp \in {"ok", "notok"}
ResponseOk(resp) == resp = "ok"

\* delay = min(delay * 1.5, max_delay); every value below the cap is a whole
\* number of eighths (80, 120, 180, 270, 405), and 405 * 1.5 is above the cap
NextDelayUncapped(delay) == (3 * delay) \div 2
NextDelay(delay) ==
    IF (3 * delay) \div 2 < Seconds(MaxDelaySeconds)
    THEN (3 * delay) \div 2
    ELSE Seconds(MaxDelaySeconds)

NUntouched == UNCHANGED <<mainVars, cmdVars, rcVars, otherVars>>

\* lines 260-274 (49-72): the call, up to the loop
NCall(checks_credentials, has_credentials, max_time, t0) ==
    /\ n_pc = "off"
    /\ n_clock' = t0
    /\ n_start' = t0
    /\ n_max_time' = max_time
    /\ n_attempt' = 0
    /\ n_delay' = Seconds(InitialDelaySeconds)
    /\ IF checks_credentials /\ ~has_credentials
       THEN n_pc' = "ret"
       ELSE n_pc' = "loop"
    /\ n_result' = FALSE
    /\ UNCHANGED <<n_elapsed, n_tries, n_ok, n_late, n_pauses>>
    /\ NUntouched

\* lines 277-282 (75-80): the loop head finds the budget used up
NGiveUp ==
    /\ n_pc = "loop"
    /\ BudgetExceeded(n_clock - n_start, n_max_time)
    /\ n_attempt' = n_attempt + 1
    /\ n_elapsed' = n_clock - n_start
    /\ n_result' = FALSE
    /\ n_pc' = "ret"
    /\ UNCHANGED <<n_clock, n_start, n_max_time, n_delay, n_tries, n_ok, n_late, n_pauses>>
    /\ NUntouched

\* lines 277-312 (75-108): one iteration that makes a delivery attempt
NAttempt(resp, dur) ==
    /\ n_pc = "loop"
    /\ ~BudgetExceeded(n_clock - n_start, n_max_time)
    /\ n_attempt' = n_attempt + 1
    /\ n_elapsed' = n_clock - n_start
    /\ n_tries' = n_tries + 1
    /\ n_late' = (n_late \/ n_clock - n_start > n_max_time)
    /\ n_ok' = (n_ok \/ resp = "ok")
    /\ IF resp \in {"ok", "notok"} /\ ResponseOk(resp)
       THEN /\ n_result' = TRUE
            /\ n_pc' = "ret"
            /\ n_clock' = n_clock + dur
            /\ UNCHANGED <<n_delay, n_pauses>>
       ELSE /\ n_clock' = n_clock + dur + n_delay
            /\ n_pauses' = Append(n_pauses, n_delay)
            /\ n_delay' = NextDelay(n_delay)
            /\ UNCHANGED <<n_pc, n_result>>
    /\ UNCHANGED <<n_start, n_max_time>>
    /\ NUntouched

NStep ==
    \/ NGiveUp
    \/ \E resp \in Responses : \E dur \in CurlDurations(resp) : NAttempt(resp, dur)

NextNotify ==
    \/ \E chk \in BOOLEAN, has \in BOOLEAN, mt \in NMaxTimes, t0 \in {0, Seconds(1)} :
          NCall(chk, has, mt, t0)
    \/ NStep

SpecNotify == Init /\ [][NextNotify]_vars

\* curl returns within its timeout and time.sleep returns: the loop keeps going
SpecNotifyFair == SpecNotify /\ WF_vars(NStep)

----------------------------------------------------------------------------
(* The state file on its own: save_state and load_state called on any
   record and on any content of the file. *)

Keys == DOMAIN default_state
Statuses == {"unknown", "connected", "disconnected", "auth_required"}
Stamps == {<<>>} \cup {<<t>> : t \in 0..MaxStamp}

\* the records main can hand to save_state
MonitorRecords ==
    [last_check : Stamps,
     last_status : Statuses,
     last_notification_time : Stamps,
     reconnect_count : 0..MaxCount,
     consecutive_failures : 0..MaxCount]

Restrict(f, K) == [k \in K |-> f[k]]

\* a key this version of the monitor does not know
ExtraMember == "schema" :> JNumber(2)

\* the JSON objects an earlier or later version may have left: any subset
\* of the keys, with or without a key of its own
StoredObjects ==
    LET partial == {json_dump(Restrict(r, K)) : r \in MonitorRecords, K \in SUBSET Keys}
    IN partial \cup {m @@ ExtraMember : m \in partial}

FileContents == {Absent, Unusable} \cup {Object(m) : m \in StoredObjects}

StUntouched ==
    UNCHANGED <<now, runs, reads, writes, pc, loaded, state, previous_status,
                vpn_connected, can_send_notification, sent, send_failed,
                exit_code, run_time, lastRun, prevRun, cmdVars, rcVars, nVars,
                probeVars, botVars, encVars, loVars>>

\* the file as the process finds it
StPut(content) ==
    /\ st_pc = "off"
    /\ pc = "idle"
    /\ file' = content
    /\ st_pc' = "put"
    /\ UNCHANGED <<st_arg, st_wrote, st_ret>>
    /\ StUntouched

\* lines 338-345: save_state(rec), here into a directory without the file
\* (the runs of main are where it overwrites one).  When open() or json.dump
\* raises, the exception is logged and the file is left as it was or cut short.
StSave(rec, wrote, cut) ==
    /\ st_pc = "off"
    /\ pc = "idle"
    /\ file' = IF wrote THEN save_state(rec) ELSE IF cut THEN Unusable ELSE file
    /\ st_pc' = "saved"
    /\ st_arg' = rec
    /\ st_wrote' = wrote
    /\ UNCHANGED st_ret
    /\ StUntouched

\* lines 315-335: load_state()
StLoad ==
    /\ st_pc \in {"put", "saved"}
    /\ pc = "idle"
    /\ st_ret' = load_state(file)
    /\ st_pc' = "loaded"
    /\ UNCHANGED <<file, st_arg, st_wrote>>
    /\ StUntouched

\* the file is removed and the next process starts
StReset ==
    /\ st_pc = "loaded"
    /\ file' = Absent
    /\ st_pc' = "off"
    /\ st_arg' = default_state
    /\ st_wrote' = FALSE
    /\ st_ret' = default_state
    /\ StUntouched

NextState ==
    \/ \E content \in FileContents : StPut(content)
    \/ \E rec \in MonitorRecords, wrote, cut \in BOOLEAN : StSave(rec, wrote, cut)
    \/ StLoad
    \/ StReset

SpecState == Init /\ [][NextState]_vars

----------------------------------------------------------------------------
(* The Status Prober on its own: is_vpn_connected over everything the two
   commands can answer. *)

\* lines 113-121: one call of is_vpn_connected()
ProbeRun(so, pings) ==
    /\ pc = "idle"
    /\ probe_pc' = "done"
    /\ probe_status' = so
    /\ probe_pings' = pings
    /\ probe_ret' = is_vpn_connected(so, pings)
    /\ UNCHANGED <<mainVars, cmdVars, rcVars, nVars, stVars, botVars, encVars, loVars>>

NextProbe == \E so \in StatusOutcomes, pings \in PingResults : ProbeRun(so, pings)

SpecProbe == Init /\ [][NextProbe]_vars

----------------------------------------------------------------------------
(* The VPN bot: TelegramBot of vpn_bot.py, polling for updates and handling
   them one by one. *)

ALLOWED_USER_ID == 862779466

\* message["from"]["id"]: <<>> when the message has no sender
Senders == {<<>>, <<ALLOWED_USER_ID>>, <<ALLOWED_USER_ID + 1>>}

\* message["text"]; None for a message whose "text" is null
Texts == {"/vpn_status", "/vpn_restart", "/vpn_reconnect", "/help", "/other", "hello",
          None}

\* how far a command handler gets: its first system command fails or times
\* out; it stops after "netbird up" (already connected, or a login URL);
\* it runs to the ping
HandlerOutcomes == {"first_fails", "early", "full"}

\* line 125: user_id != ALLOWED_USER_ID
AccessDeniedUnlessAnonymous(user_id) ==
    user_id # <<>> /\ user_id # <<ALLOWED_USER_ID>>
AccessDenied(user_id) == user_id # <<ALLOWED_USER_ID>>

Handled(commands, answers) ==
    [ran |-> commands, replies |-> answers, raised |-> FALSE]

\* line 119: message.get("text", "").strip() on None raises AttributeError,
\* before the sender is looked at
Raised == [ran |-> {}, replies |-> <<>>, raised |-> TRUE]

\* line 110: self.offset = update["update_id"] + 1, before handle_message
NextOffsetAfterHandling(offset, update, raised) ==
    IF raised THEN offset ELSE update.update_id + 1
NextOffset(offset, update, raised) == update.update_id + 1

\* lines 151-197: netbird status -d, then _check_ping
cmd_vpn_status(o) ==
    Handled(IF o = "first_fails" THEN {"netbird"} ELSE {"netbird", "ping"},
            <<"progress", "result">>)

\* lines 199-252: systemctl restart netbird, then netbird up, then _check_ping
cmd_vpn_restart(o) ==
    Handled(CASE o = "first_fails" -> {"systemctl"}
              [] o = "early" -> {"systemctl", "netbird"}
              [] OTHER -> {"systemctl", "netbird", "ping"},
            <<"progress", "result">>)

\* lines 254-301: netbird down, netbird up, then _check_ping
cmd_vpn_reconnect(o) ==
    Handled(IF o = "full" THEN {"netbird", "ping"} ELSE {"netbird"},
            <<"progress", "result">>)

\* lines 115-140: the system commands run and the answers sent for one message
handle_message(message, o) ==
    IF message.text = None
    THEN Raised
    ELSE IF AccessDenied(message.sender)
    THEN Handled({}, <<"denied">>)
    ELSE CASE message.text = "/vpn_status" -> cmd_vpn_status(o)
           [] message.text = "/vpn_restart" -> cmd_vpn_restart(o)
           [] message.text = "/vpn_reconnect" -> cmd_vpn_reconnect(o)
           [] message.text \in {"/start", "/help"} -> Handled({}, <<"help">>)
           [] message.text = "/other" -> Handled({}, <<"unknown">>)
           [] OTHER -> Handled({}, <<>>)

BotUntouched ==
    UNCHANGED <<mainVars, cmdVars, rcVars, nVars, stVars, probeVars, encVars, loVars>>

\* somebody writes to the bot: the server queues an update
BotArrive(sender, text) ==
    /\ pc = "idle"
    /\ bot_next_id <= MaxUpdates
    /\ bot_server' = Append(bot_server,
                            [update_id |-> bot_next_id, sender |-> sender, text |-> text])
    /\ bot_next_id' = bot_next_id + 1
    /\ UNCHANGED <<bot_offset, bot_batch, bot_handled, bot_last, bot_raised,
                   bot_abandoned>>
    /\ BotUntouched

\* updates the server still holds once it is asked with this offset
Pending(offset) == SelectSeq(bot_server, LAMBDA u : u.update_id >= offset)

\* lines 85-105 and 366-370: get_updates(); the request confirms the
\* updates below the offset; a failed request gives an empty batch
BotPoll(ok) ==
    /\ bot_batch = <<>>
    /\ bot_server # <<>>
    /\ bot_server' = IF ok THEN Pending(bot_offset) ELSE bot_server
    /\ bot_batch' = IF ok THEN Pending(bot_offset) ELSE <<>>
    /\ UNCHANGED <<bot_offset, bot_next_id, bot_handled, bot_last, bot_raised,
                   bot_abandoned>>
    /\ BotUntouched

\* lines 107-113: one iteration of the loop of process_updates; an exception
\* of handle_message ends process_updates and is caught in run (lines 374-376),
\* which polls again
BotProcess(o) ==
    /\ bot_batch # <<>>
    /\ LET update == Head(bot_batch)
           done == handle_message(update, o)
           rest == Tail(bot_batch)
       IN /\ bot_offset' = NextOffset(bot_offset, update, done.raised)
          /\ bot_handled' = Append(bot_handled, update.update_id)
          /\ bot_last' = <<[update_id |-> update.update_id,
                            sender |-> update.sender,
                            text |-> update.text,
                            ran |-> done.ran,
                            replies |-> done.replies,
                            raised |-> done.raised]>>
          /\ IF done.raised
             THEN /\ bot_batch' = <<>>
                  /\ bot_raised' = bot_raised \cup {update.update_id}
                  /\ bot_abandoned' =
                        bot_abandoned \cup {rest[i].update_id : i \in 1..Len(rest)}
             ELSE /\ bot_batch' = rest
                  /\ UNCHANGED <<bot_raised, bot_abandoned>>
    /\ UNCHANGED <<bot_server, bot_next_id>>
    /\ BotUntouched

NextBot ==
    \/ \E sender \in Senders, text \in Texts : BotArrive(sender, text)
    \/ \E ok \in BOOLEAN : BotPoll(ok)
    \/ \E o \in HandlerOutcomes : BotProcess(o)

SpecBot == Init /\ [][NextBot]_vars

----------------------------------------------------------------------------
(* The encashment sender (src/encashment/telegram.py) *)

dp_types == <<"FRANCHISE", "DELIVERY_POINT">>
DpTypes == {dp_types[i] : i \in 1..Len(dp_types)}

\* how send_report_for_date goes for one type: the report is empty, the
\* message is sent, Telegram refuses it, or building the report raises
ReportOutcomes == {"empty", "sent", "refused", "raised"}

EveningHour == 20
Hours == {9, EveningHour}

\* date.strftime("%Y-%m-%d") and datetime.strptime(text, "%Y-%m-%d")
strftime(date) == <<"Y-m-d", date>>
strptime(text) == IF Len(text) = 2 /\ text[1] = "Y-m-d" THEN <<text[2]>> ELSE <<>>

\* lines 58-71
check_vpn(pings) == \E h \in VPN_HOSTS : pings[h] = "ok"

\* lines 209-217: <<>> is None
get_last_run_date(f) == IF f = Absent THEN <<>> ELSE strptime(f)

\* lines 220-222
save_last_run_date(date) == strftime(date)

\* lines 225-247
get_missed_dates(last_run, today, hour) ==
    IF last_run = <<>>
    THEN <<today>>
    ELSE LET missed == [i \in 1..(today - last_run[1]) |-> last_run[1] + i]
         IN IF missed = <<>> /\ hour >= EveningHour /\ last_run[1] < today
            THEN <<today>>
            ELSE missed

\* lines 250-279: the value returned
send_report_for_date(o) == o \in {"empty", "sent"}

\* lines 321-331: date_success after the inner loop
DateSuccess(chats, o) == \A t \in chats : send_report_for_date(o[t])

EncUntouched ==
    UNCHANGED <<mainVars, cmdVars, rcVars, nVars, stVars, probeVars, botVars, loVars>>

\* lines 282-317: main up to the loop over the dates
EncStart(pings, chats) ==
    /\ enc_pc = "idle"
    /\ enc_failed' = {}
    /\ enc_last' = <<>>
    /\ LET missed_dates ==
              get_missed_dates(get_last_run_date(enc_file), enc_today, enc_hour)
       IN IF ~check_vpn(pings)
          THEN /\ enc_exit' = <<1>>
               /\ UNCHANGED <<enc_pc, enc_chats, enc_missed, enc_success>>
          ELSE IF missed_dates = <<>>
          THEN /\ enc_exit' = <<0>>
               /\ UNCHANGED <<enc_pc, enc_chats, enc_missed, enc_success>>
          ELSE /\ enc_pc' = "loop"
               /\ enc_chats' = chats
               /\ enc_missed' = missed_dates
               /\ enc_success' = TRUE
               /\ enc_exit' = <<>>
    /\ UNCHANGED <<enc_file, enc_today, enc_hour>>
    /\ EncUntouched

\* lines 320-342: one date of the loop, and the return after the last one
EncDate(o) ==
    /\ enc_pc = "loop"
    /\ LET date == Head(enc_missed)
           date_success == DateSuccess(enc_chats, o)
           overall_success == enc_success /\ date_success
           rest == Tail(enc_missed)
       IN /\ enc_file' = IF date_success THEN save_last_run_date(date) ELSE enc_file
          /\ enc_failed' = IF date_success THEN enc_failed ELSE enc_failed \cup {date}
          /\ enc_last' = <<[date |-> date,
                            sent |-> {t \in enc_chats : o[t] = "sent"},
                            saved |-> date_success]>>
          /\ enc_success' = overall_success
          /\ enc_missed' = rest
          /\ IF rest = <<>>
             THEN /\ enc_pc' = "idle"
                  /\ enc_exit' = <<IF overall_success THEN 0 ELSE 1>>
             ELSE UNCHANGED <<enc_pc, enc_exit>>
    /\ UNCHANGED <<enc_chats, enc_today, enc_hour>>
    /\ EncUntouched

\* the evening comes
EncClock ==
    /\ enc_pc = "idle"
    /\ enc_hour < EveningHour
    /\ enc_hour' = EveningHour
    /\ UNCHANGED <<enc_file, enc_today, enc_pc, enc_chats, enc_missed, enc_success,
                   enc_exit, enc_last, enc_failed>>
    /\ EncUntouched

\* the next day comes
EncDay ==
    /\ enc_pc = "idle"
    /\ enc_today < MaxDay
    /\ enc_today' = enc_today + 1
    /\ enc_hour' = 9
    /\ UNCHANGED <<enc_file, enc_pc, enc_chats, enc_missed, enc_success, enc_exit,
                   enc_last, enc_failed>>
    /\ EncUntouched

NextEncashment ==
    \/ \E pings \in PingResults, chats \in SUBSET DpTypes : EncStart(pings, chats)
    \/ \E o \in [DpTypes -> ReportOutcomes] : EncDate(o)
    \/ EncClock
    \/ EncDay

SpecEncashment == Init /\ [][NextEncashment]_vars

----------------------------------------------------------------------------
(* The late-opening sender (src/late_opening/telegram.py) *)

FINAL_CHECK_HOUR == 11
FINAL_CHECK_MINUTE == 0

final_check_minutes == FINAL_CHECK_HOUR * 60 + FINAL_CHECK_MINUTE

\* the times of day at which the sender is run
ClockTimes == {final_check_minutes - 1, final_check_minutes, final_check_minutes + 60}

Modes == {"bucket", "final"}

\* --force is looked at in final mode only, --schedule in bucket mode only
ForceFlags(mode) == IF mode = "final" THEN BOOLEAN ELSE {FALSE}
ScheduleFlags(mode) == IF mode = "bucket" THEN BOOLEAN ELSE {FALSE}

\* lines 73-81: ping answers, or fails one way or another
LatePings == [VPN_HOSTS -> {"ok", "nonzero"}]

\* lines 69-82
late_check_vpn(pings) == \E h \in VPN_HOSTS : pings[h] = "ok"

\* lines 85-93: <<>> is None
late_get_last_run_date(f) == IF f = Absent THEN <<>> ELSE strptime(f)

\* lines 96-98
late_save_last_run_date(date) == strftime(date)

\* lines 101-124
should_send_final_report(current_minutes, today, f) ==
    LET last_run == late_get_last_run_date(f)
    IN IF current_minutes < final_check_minutes
       THEN FALSE
       ELSE IF last_run # <<>> /\ last_run[1] >= today
       THEN FALSE
       ELSE TRUE

\* lines 313-364: overall_success after the loop over the types
OverallSuccess(chats, o) == \A t \in chats : o[t] \in {"empty", "sent"}

LoUntouched ==
    UNCHANGED <<mainVars, cmdVars, rcVars, nVars, stVars, probeVars, botVars, encVars>>

\* lines 273-371: main
LoRun(mode, force, schedule, pings, chats, o) ==
    /\ lo_runs < MaxLoRuns
    /\ lo_runs' = lo_runs + 1
    /\ LET skipped == /\ mode = "final"
                      /\ ~force
                      /\ ~should_send_final_report(lo_minutes, lo_today, lo_file)
           no_vpn == ~late_check_vpn(pings)
           \* lines 329-332: bucket mode without --schedule returns at the
           \* first type that has a chat id
           no_schedule == mode = "bucket" /\ ~schedule /\ chats # {}
           attempted == ~skipped /\ ~no_vpn /\ ~no_schedule
           overall_success == OverallSuccess(chats, o)
           wrote == attempted /\ mode = "final" /\ overall_success
           delivered == IF attempted THEN {t \in chats : o[t] = "sent"} ELSE {}
       IN /\ lo_file' = IF wrote THEN late_save_last_run_date(lo_today) ELSE lo_file
          /\ lo_delivered' =
                [k \in DOMAIN lo_delivered |->
                    IF mode = "final" /\ ~force /\ k[1] = lo_today /\ k[2] \in delivered
                    THEN lo_delivered[k] + 1
                    ELSE lo_delivered[k]]
          /\ lo_last' = <<[mode |-> mode,
                           force |-> force,
                           minutes |-> lo_minutes,
                           today |-> lo_today,
                           marker |-> late_get_last_run_date(lo_file),
                           attempted |-> attempted,
                           failed |-> attempted /\ ~overall_success,
                           wrote |-> wrote]>>
    /\ UNCHANGED <<lo_today, lo_minutes>>
    /\ LoUntouched

\* the day goes on
LoClock(t) ==
    /\ t > lo_minutes
    /\ lo_minutes' = t
    /\ UNCHANGED <<lo_file, lo_today, lo_runs, lo_last, lo_delivered>>
    /\ LoUntouched

\* the next day comes
LoDay ==
    /\ lo_today < MaxDay
    /\ lo_today' = lo_today + 1
    /\ lo_minutes' = final_check_minutes - 1
    /\ UNCHANGED <<lo_file, lo_runs, lo_last, lo_delivered>>
    /\ LoUntouched

NextLateOpening ==
    \/ \E mode \in Modes, pings \in LatePings, chats \in SUBSET DpTypes :
          \E force \in ForceFlags(mode), schedule \in ScheduleFlags(mode),
             o \in [chats -> ReportOutcomes] :
                LoRun(mode, force, schedule, pings, chats, o)
    \/ \E t \in ClockTimes : LoClock(t)
    \/ LoDay

SpecLateOpening == Init /\ [][NextLateOpening]_vars

----------------------------------------------------------------------------
(* Properties of the monitor's runs.  They read the record of the last
   completed run (lastRun), of the one before it (prevRun) and the file. *)

Last == lastRun[1]
Prev == prevRun[1]
Saved == load_state(file)

OneRunDone == pc = "idle" /\ lastRun # <<>>
TwoRunsDone == pc = "idle" /\ lastRun # <<>> /\ prevRun # <<>>

\* less than 30 minutes had passed since the loaded last_notification_time
\* when the run looked at the clock
CooldownActive(run) ==
    /\ run.loaded_time # <<>>
    /\ run.time - run.loaded_time[1] < CooldownMinutes

\* C1: in the persisted record, last_status = connected implies
\* consecutive_failures = 0, after every run from the default record on
C1_ConnectedHasNoFailures ==
    file # <<>> => (Saved.last_status = "connected" => Saved.consecutive_failures = 0)

\* a run that loaded a record with failures counted and saved connected
C1_Witness ==
    /\ OneRunDone
    /\ Last.loaded_failures > 0
    /\ Saved.last_status = "connected"
    /\ Saved.consecutive_failures = 0

\* C2: two consecutive runs, both with a disconnected initial probe and less
\* than 30 minutes apart, send at most one "disconnect" notification together
C2_OneDisconnectNotice ==
    (/\ TwoRunsDone
     /\ ~Prev.probe
     /\ ~Last.probe
     /\ Last.time - Prev.time < CooldownMinutes)
    => Count(Prev.sent, "disconnect") + Count(Last.sent, "disconnect") <= 1

\* the first run announced the disconnection and reconnected; the second
\* found the VPN down again (previous status connected) and kept quiet
C2_Witness ==
    /\ TwoRunsDone
    /\ ~Prev.probe
    /\ ~Last.probe
    /\ Last.time - Prev.time < CooldownMinutes
    /\ Count(Prev.sent, "disconnect") = 1
    /\ Last.loaded_status = "connected"
    /\ Count(Last.sent, "disconnect") = 0

\* C3 as stated: no notification at all is sent by a run that starts less
\* than 30 minutes after the loaded last_notification_time
C3_Original_AllGated ==
    (OneRunDone /\ CooldownActive(Last)) => Last.sent = <<>>

\* C3 amended: inside the cooldown no "disconnect", "reconnect_failure" or
\* "auth_required" notification is sent; "recovered" and "reconnect_success"
\* are sent whenever their transition happens, cooldown or not
C3_FailureNoticesGated ==
    /\ (OneRunDone /\ CooldownActive(Last)) =>
          \A i \in 1..Len(Last.sent) : Last.sent[i] \in {"recovered", "reconnect_success"}
    /\ OneRunDone =>
          /\ Last.success => Count(Last.sent, "reconnect_success") = 1
          /\ (Last.probe /\ Last.loaded_status \in {"disconnected", "auth_required"})
                => Last.sent = <<"recovered">>

\* inside the cooldown a reconnect succeeded and was announced
C3_Witness ==
    /\ OneRunDone
    /\ CooldownActive(Last)
    /\ Last.sent = <<"reconnect_success">>

\* the notifications a run sends around a failed or successful reconnect
ExpectedNotices(run) ==
    (IF run.can_send /\ run.loaded_status # "disconnected" THEN <<"disconnect">> ELSE <<>>)
    \o (IF run.success THEN <<"reconnect_success">>
        ELSE IF ~run.can_send THEN <<>>
        ELSE IF run.got_url THEN <<"auth_required">>
        ELSE <<"reconnect_failure">>)

ConnectedThenDown(run) == run.loaded_status = "connected" /\ ~run.probe

\* C4 as stated: a run that loaded connected and probed disconnected ends in
\* disconnected / auth_required per the outcome of a failed reconnect and
\* sends exactly one notification
C4_Original_ExactlyOne ==
    (OneRunDone /\ ConnectedThenDown(Last)) =>
        /\ ~Last.success =>
              Saved.last_status = IF Last.got_url THEN "auth_required" ELSE "disconnected"
        /\ Len(Last.sent) = 1

\* C4 amended: such a run ends in auth_required (URL obtained) or disconnected
\* (none) when the reconnect fails, and then sends two notifications
\* ("disconnect", then "auth_required" / "reconnect_failure") if the cooldown
\* has elapsed and none if it has not; when the reconnect succeeds it sends
\* "reconnect_success", preceded by "disconnect" if the cooldown has elapsed
C4_TwoOrNone ==
    (OneRunDone /\ ConnectedThenDown(Last)) =>
        /\ ~Last.success =>
              /\ Saved.last_status = IF Last.got_url THEN "auth_required" ELSE "disconnected"
              /\ Len(Last.sent) = IF Last.can_send THEN 2 ELSE 0
        /\ Last.success => Saved.last_status = "connected"
        /\ Last.sent = ExpectedNotices(Last)
        /\ Last.can_send = ~CooldownActive(Last)

\* connected, then down, the reconnect fails with the cooldown elapsed
C4_Witness ==
    /\ OneRunDone
    /\ ConnectedThenDown(Last)
    /\ ~Last.success
    /\ Len(Last.sent) = 2
    /\ Saved.last_status \in {"disconnected", "auth_required"}

\* a run went from connected to disconnected / auth_required, and the next
\* run, inside the cooldown and less than 30 minutes later, probes disconnected
SecondRunInCooldown ==
    /\ TwoRunsDone
    /\ ConnectedThenDown(Prev)
    /\ Last.loaded_status \in {"disconnected", "auth_required"}
    /\ ~Last.probe
    /\ Last.time - Prev.time < CooldownMinutes
    /\ CooldownActive(Last)

\* C5 as stated: that second run sends nothing, whatever its reconnect does
C5_Original_SecondRunSilent ==
    SecondRunInCooldown => Last.sent = <<>>

\* C5 amended: that second run sends nothing unless its reconnect succeeds;
\* then it sends exactly one notification, "reconnect_success"
C5_SecondRunSilentUnlessReconnected ==
    SecondRunInCooldown =>
        Last.sent = IF Last.success THEN <<"reconnect_success">> ELSE <<>>

\* the second run, after auth_required, fetched a URL and still kept quiet
C5_Witness ==
    /\ SecondRunInCooldown
    /\ Last.loaded_status = "auth_required"
    /\ Last.logins = 1
    /\ Last.sent = <<>>
    /\ Prev.sent # <<>>

\* C6 as stated: that second run runs at least one down/up cycle, whichever
\* status the first run left
C6_Original_AlwaysReconnects ==
    SecondRunInCooldown => Last.downs >= 1

\* C6 amended: that second run calls reconnect_vpn (which issues at least one
\* "down") when the first run left disconnected; when it left auth_required
\* no "down" / "up" is issued, only the login command, once
C6_ReconnectsUnlessAuthRequired ==
    SecondRunInCooldown =>
        /\ Last.loaded_status = "disconnected" => Last.downs >= 1
        /\ Last.loaded_status = "auth_required" =>
              Last.downs = 0 /\ Last.ups = 0 /\ Last.logins = 1

\* after disconnected, the second run went through all three cycles in vain
C6_Witness ==
    /\ SecondRunInCooldown
    /\ Last.loaded_status = "disconnected"
    /\ Last.downs = MainMaxRetries
    /\ Last.ups = MainMaxRetries
    /\ Last.sent = <<>>

\* C7: the exit code of a run is 0 exactly if the run persisted
\* last_status = connected, and 1 otherwise
C7_ExitCodeTracksStatus ==
    OneRunDone =>
        /\ exit_code \in {0, 1}
        /\ exit_code = 0 <=> Saved.last_status = "connected"

----------------------------------------------------------------------------
(* Properties of reconnect_vpn *)

RcRunning == rc_pc \in {"down", "up", "probe", "login", "final"}

\* C8: reconnect_vpn(max_retries) issues at most max_retries "down" and at
\* most max_retries "up" commands whatever the commands answer, and returns
C8_ReconnectBounded ==
    /\ [](cmds.down <= max_retries /\ cmds.up <= max_retries)
    /\ (RcRunning ~> rc_pc = "ret")

\* every one of the three attempts got as far as "up", and the call returned
C8_Witness ==
    /\ rc_pc = "ret"
    /\ max_retries = MaxRetriesBound
    /\ cmds.down = max_retries
    /\ cmds.up = max_retries
    /\ ~rc_result.success

\* C9: when the output of "up" on attempt k holds a login URL, reconnect_vpn
\* has returned (False, k, that URL) and "up" is the last command it issued
C9_AuthUrlStopsRetries ==
    SearchUrl(last_output) # None =>
        /\ rc_pc = "ret"
        /\ last_cmd = "up"
        /\ cmds.down = attempt /\ cmds.up <= attempt
        /\ cmds.login = 0
        /\ rc_result = Result(FALSE, attempt, SearchUrl(last_output))

\* the URL came on attempt 1 of 3: one "down", one "up", nothing else
C9_Witness ==
    /\ rc_pc = "ret"
    /\ max_retries = MaxRetriesBound
    /\ SearchUrl(last_output) = UpUrl
    /\ rc_result = Result(FALSE, 1, UpUrl)
    /\ cmds = [NoCmds EXCEPT !.down = 1, !.up = 1]

----------------------------------------------------------------------------
(* Properties of the notifier *)

\* C10: the notifier returns, True exactly when some attempt's response had
\* ok = true; it gives up (False) at the first loop iteration that finds the
\* budget exceeded and starts no delivery attempt once it is exceeded
C10_NotifierContract ==
    /\ [](n_pc \in {"off", "loop", "ret"})
    /\ [](n_pc = "ret" => (n_result <=> n_ok))
    /\ [](n_pc = "ret" /\ ~n_result /\ n_attempt > 0 =>
              /\ n_elapsed > n_max_time
              /\ n_tries = n_attempt - 1)
    /\ [](n_pc = "loop" /\ n_attempt > 0 => n_elapsed <= n_max_time)
    /\ [](~n_late)
    /\ (n_pc = "loop" ~> n_pc = "ret")

\* the default budget ran out after a series of failed attempts
C10_Witness ==
    /\ n_pc = "ret"
    /\ ~n_result
    /\ n_max_time = Seconds(DefaultMaxTimeSeconds)
    /\ n_tries > 10
    /\ n_elapsed > n_max_time

----------------------------------------------------------------------------
\* C11: every run of main loads the state file exactly once, before any
\* command of the run, and saves it exactly once, as the step with which the
\* run ends, on every branch; a notifier call that returned False changes
\* nothing of this.
C11_OneLoadOneSave ==
    /\ [](writes = runs /\ reads = runs + (IF pc = "idle" THEN 0 ELSE 1))
    /\ [][/\ reads' # reads =>
              reads' = reads + 1 /\ pc = "idle" /\ cmds = NoCmds
          /\ file' # file => writes' # writes
          /\ writes' # writes =>
              /\ writes' = writes + 1
              /\ runs' = runs + 1
              /\ reads' = runs'
              /\ pc' = "idle" /\ rc_pc' = "off"
              /\ load_state(file').last_check = <<now'>>]_vars

\* a run that reconnected, had a notification fail, and still saved
C11_Witness ==
    /\ OneRunDone
    /\ Last.failed
    /\ Last.downs > 0
    /\ writes = runs
    /\ Saved.last_check = <<now>>

\* C12: for every monitor record, save_state followed by load_state returns
\* a record equal to the one saved (the write having gone through).
C12_RoundTrip ==
    (st_pc = "loaded" /\ st_wrote) => st_ret = st_arg

\* a record with both timestamps set and non-zero counters made the trip
C12_Witness ==
    /\ st_pc = "loaded"
    /\ st_wrote
    /\ st_arg.last_status = "auth_required"
    /\ st_arg.last_check # <<>>
    /\ st_arg.last_notification_time # <<>>
    /\ st_arg.consecutive_failures > 0
    /\ st_ret = st_arg

\* C16: load_state always returns a record: the full default record when the
\* file is absent, unreadable or corrupt, and otherwise every stored key with
\* its stored value and every other key of the defaults with its default.
C16_LoadFillsDefaults ==
    st_pc = "loaded" =>
        IF file = Absent \/ file = Unusable
        THEN st_ret = default_state
        ELSE /\ DOMAIN st_ret = Keys \cup DOMAIN file[2]
             /\ \A k \in DOMAIN file[2] : st_ret[k] = Decode(file[2][k])
             /\ \A k \in Keys \ DOMAIN file[2] : st_ret[k] = default_state[k]

\* a file holding two of the keys and one of its own was loaded
C16_Witness ==
    /\ st_pc = "loaded"
    /\ Len(file) = 2
    /\ DOMAIN file[2] = {"last_status", "consecutive_failures", "schema"}
    /\ file[2]["last_status"] = JString("disconnected")
    /\ st_ret.last_status = "disconnected"
    /\ st_ret.reconnect_count = 0
    /\ st_ret.last_notification_time = <<>>
    /\ st_ret["schema"] = 2

\* C16, the other case: a file that cannot be used gives the defaults
C16_WitnessUnusable ==
    /\ st_pc = "loaded"
    /\ file = Unusable
    /\ st_arg # default_state
    /\ st_ret = default_state

NotificationTime(f) == load_state(f).last_notification_time

\* C13: the last_notification_time in the state file, once set, is never
\* absent again and never earlier than it was: a run that loaded it set
\* leaves it set, and not earlier, in the file it saves (the file changes
\* only with the save that ends a run).
C13_NotificationTimeMonotone ==
    (OneRunDone /\ Last.loaded_time # <<>>) =>
        /\ NotificationTime(file) # <<>>
        /\ NotificationTime(file)[1] >= Last.loaded_time[1]

\* a run found the time set, notified later, and the file holds the later time
C13_Witness ==
    /\ TwoRunsDone
    /\ Last.loaded_time # <<>>
    /\ Last.sent # <<>>
    /\ NotificationTime(file) # <<>>
    /\ NotificationTime(file)[1] > Last.loaded_time[1]

\* the cooldown had elapsed when the run asked
Elapsed(run) ==
    \/ run.loaded_time = <<>>
    \/ run.time - run.loaded_time[1] >= CooldownMinutes

\* C19: a run that loads auth_required and probes disconnected issues no
\* down and no up, leaves last_status auth_required, adds exactly 1 to
\* consecutive_failures, and sends nothing but an auth_required notification,
\* and that only with the cooldown elapsed and a URL from the login command;
\* a run that loads auth_required and leaves another status probed connected.
C19_AuthRequiredStays ==
    OneRunDone =>
        /\ (Last.loaded_status = "auth_required" /\ ~Last.probe) =>
              /\ Last.downs = 0 /\ Last.ups = 0
              /\ Saved.last_status = "auth_required"
              /\ Saved.consecutive_failures = Last.loaded_failures + 1
              /\ Last.sent \in {<<>>, <<"auth_required">>}
              /\ Last.sent # <<>> => (Elapsed(Last) /\ Last.logins = 1 /\ Last.got_url)
        /\ (Last.loaded_status = "auth_required" /\ Saved.last_status # "auth_required")
              => Last.probe

\* such a run, with the notification sent
C19_Witness ==
    /\ OneRunDone
    /\ Last.loaded_status = "auth_required"
    /\ ~Last.probe
    /\ Last.sent = <<"auth_required">>
    /\ Last.loaded_time # <<>>
    /\ Saved.last_status = "auth_required"
    /\ Saved.consecutive_failures = Last.loaded_failures + 1

\* C19, the quiet case: inside the cooldown the run sends nothing
C19_WitnessQuiet ==
    /\ OneRunDone
    /\ Last.loaded_status = "auth_required"
    /\ ~Last.probe
    /\ Last.got_url
    /\ Last.sent = <<>>

\* C20: a run whose probe is connected sends "recovered" exactly when it
\* loaded disconnected or auth_required; having loaded connected or unknown
\* it sends nothing and leaves last_notification_time and
\* consecutive_failures as loaded; in all four cases it ends connected.
C20_RecoveredIffWasDown ==
    (OneRunDone /\ Last.probe) =>
        /\ Last.sent = <<"recovered">> <=>
              Last.loaded_status \in {"disconnected", "auth_required"}
        /\ Last.loaded_status \in {"connected", "unknown"} =>
              /\ Last.sent = <<>>
              /\ Saved.last_notification_time = Last.loaded_time
              /\ Saved.consecutive_failures = Last.loaded_failures
        /\ Saved.last_status = "connected"

\* recovered after auth_required
C20_Witness ==
    /\ OneRunDone
    /\ Last.probe
    /\ Last.loaded_status = "auth_required"
    /\ Last.sent = <<"recovered">>
    /\ Saved.last_status = "connected"

\* C20, the silent case: connected found connected, an earlier notification kept
C20_WitnessSilent ==
    /\ OneRunDone
    /\ Last.probe
    /\ Last.loaded_status = "connected"
    /\ Last.loaded_time # <<>>
    /\ Last.sent = <<>>
    /\ Saved.last_notification_time = Last.loaded_time

----------------------------------------------------------------------------
(* Further properties of reconnect_vpn *)

\* "up" was the last command, it returned, and its output has neither marker
UpWithoutMarker ==
    /\ last_cmd = "up"
    /\ last_answer \in {"ok", "nonzero"}
    /\ ~InOutput("SSO login", last_output)
    /\ ~InOutput("user_code", last_output)

\* C17 as stated: whenever the output of "up" shows no authorization marker
\* the probe comes next, also when "up" exited non-zero.
C17_Original_ProbeAfterEveryUp ==
    UpWithoutMarker => rc_pc = "probe"

\* C17: when "up" exits 0 and its output shows no authorization marker the
\* probe comes next, and a probe that reports connected makes reconnect_vpn
\* return success with the current attempt number; when "up" exits non-zero
\* without a login URL in its output the attempt ends without a probe.
C17_ProbeAfterSuccessfulUp ==
    /\ (UpWithoutMarker /\ last_answer = "ok") => rc_pc = "probe"
    /\ (last_cmd = "up" /\ last_answer = "nonzero" /\ SearchUrl(last_output) = None)
         => rc_pc \in {"down", "final"}
    /\ (rc_pc # "off" /\ last_cmd = "probe" /\ last_answer = "connected") =>
         /\ rc_pc = "ret"
         /\ rc_result = Result(TRUE, attempt, None)

\* the first "up" exited non-zero and was not probed; the second was, and
\* the probe reported connected
C17_Witness ==
    /\ rc_pc = "ret"
    /\ max_retries = MaxRetriesBound
    /\ rc_result = Result(TRUE, 2, None)
    /\ cmds = [NoCmds EXCEPT !.down = 2, !.up = 2, !.probe = 1]

\* C18: when reconnect_vpn returns failure without "up" having shown a login
\* URL, the login command has been invoked exactly once.
C18_LoginExactlyOnce ==
    (rc_pc = "ret" /\ ~rc_result.success /\ last_cmd # "up") => cmds.login = 1

----------------------------------------------------------------------------
(* Properties of the Status Prober *)

\* the status command returned 0 and its output, lowercased, holds the text
\* "connected" or the text "online"
StatusCheckTrue ==
    /\ probe_status.how = "returned"
    /\ probe_status.returncode = 0
    /\ \E w \in probe_status.stdout :
          LowerWord(w) \in {"connected", "disconnected", "online"}

SomeHostAnswers == \E h \in VPN_HOSTS : probe_pings[h] = "ok"

\* C14: is_vpn_connected returns True exactly when the client-status check
\* is true (exit code 0 and a connected/online marker in the output) and at
\* least one host answers its ping; a timeout, a missing binary or another
\* exception in either check counts as false, and a value is always returned.
C14_BothChecksMustPass ==
    probe_pc = "done" =>
        /\ probe_ret \in BOOLEAN
        /\ probe_ret <=> (StatusCheckTrue /\ SomeHostAnswers)
        /\ probe_status.how \in StatusRaised => ~probe_ret
        /\ (\A h \in VPN_HOSTS : probe_pings[h] \in {"timeout", "error", "nonzero"})
             => ~probe_ret

\* the first ping timed out, the second answered, the client says Connected
C14_Witness ==
    /\ probe_pc = "done"
    /\ probe_status = [how |-> "returned", returncode |-> 0, stdout |-> {"Connected"}]
    /\ probe_pings[1] = "timeout"
    /\ probe_pings[2] = "ok"
    /\ probe_ret

\* C14, the other side: the client says Connected, no host answers
C14_WitnessUnreachable ==
    /\ probe_pc = "done"
    /\ StatusCheckTrue
    /\ ~SomeHostAnswers
    /\ ~probe_ret

----------------------------------------------------------------------------
(* Properties of the VPN bot *)

\* C15: a message whose sender id is not ALLOWED_USER_ID, one with no sender
\* included, makes the bot run no netbird, systemctl or ping command; it is
\* answered with the access-denied message and nothing else (with nothing at
\* all when its text is null and handling it raises before the sender is
\* looked at).
C15_StrangersRunNothing ==
    (bot_last # <<>> /\ bot_last[1].sender # <<ALLOWED_USER_ID>>) =>
        /\ bot_last[1].ran = {}
        /\ bot_last[1].replies = IF bot_last[1].raised THEN <<>> ELSE <<"denied">>

\* a message without sender asked for a restart, after the allowed user
\* had one handled, and was denied
C15_Witness ==
    /\ Len(bot_handled) = 2
    /\ bot_last # <<>>
    /\ bot_last[1].sender = <<>>
    /\ bot_last[1].text = "/vpn_restart"
    /\ bot_last[1].ran = {}
    /\ bot_last[1].replies = <<"denied">>

\* C15, the allowed user: the same text runs the commands
C15_WitnessAllowed ==
    /\ bot_last # <<>>
    /\ bot_last[1].sender = <<ALLOWED_USER_ID>>
    /\ bot_last[1].text = "/vpn_restart"
    /\ bot_last[1].ran = {"systemctl", "netbird", "ping"}

----------------------------------------------------------------------------
(* Further properties of the monitor's runs *)

\* C21: a run that probes disconnected having loaded connected, unknown or
\* disconnected sends a "disconnect" notification exactly when the cooldown
\* has elapsed and it did not load disconnected, then runs reconnect_vpn, and
\* saves connected if that succeeded, auth_required if it failed with an auth
\* URL and disconnected if it failed without one.
C21_DisconnectedProbeRow ==
    (/\ OneRunDone
     /\ ~Last.probe
     /\ Last.loaded_status \in {"connected", "unknown", "disconnected"}) =>
        /\ Count(Last.sent, "disconnect") =
              (IF Elapsed(Last) /\ Last.loaded_status # "disconnected" THEN 1 ELSE 0)
        /\ Count(Last.sent, "disconnect") = 1 => Last.sent[1] = "disconnect"
        /\ Last.downs >= 1
        /\ Saved.last_status =
              (IF Last.success THEN "connected"
               ELSE IF Last.got_url THEN "auth_required"
               ELSE "disconnected")

\* loaded disconnected with the cooldown elapsed: no "disconnect" notice, the
\* reconnect fails with a URL, auth_required is saved
C21_Witness ==
    /\ OneRunDone
    /\ ~Last.probe
    /\ Last.loaded_status = "disconnected"
    /\ Elapsed(Last)
    /\ Last.sent = <<"auth_required">>
    /\ Saved.last_status = "auth_required"

\* the four fields of the record a run loaded
LoadedFields(run) ==
    <<run.loaded_status, run.loaded_time, run.loaded_count, run.loaded_failures>>

\* the same four fields of the record a run handed to save_state
SavedFields(run) ==
    <<run.saved.last_status, run.saved.last_notification_time,
      run.saved.reconnect_count, run.saved.consecutive_failures>>

\* C23: runs follow one another, and the record a run loads is the record the
\* run before it saved: none of last_status, last_notification_time,
\* reconnect_count and consecutive_failures is lost in between; the first
\* run loads the defaults.
C23_LoadsWhatWasSaved ==
    /\ TwoRunsDone => LoadedFields(Last) = SavedFields(Prev)
    /\ (pc = "reconnect" /\ lastRun # <<>>) => loaded = Last.saved
    /\ (pc = "reconnect" /\ lastRun = <<>>) => loaded = default_state

\* two failed runs in a row: the second counts on from the first
C23_Witness ==
    /\ TwoRunsDone
    /\ Prev.saved.consecutive_failures = 1
    /\ Prev.saved.last_notification_time # <<>>
    /\ Last.loaded_failures = 1
    /\ Saved.consecutive_failures = 2

\* C24: a run that ends in auth_required with a login URL at hand and the
\* cooldown elapsed sends an auth_required notification, be it the run that
\* enters the state or a later one that finds it; a run that ends in
\* auth_required without notifying leaves last_notification_time as loaded,
\* so the cooldown it waits for keeps running out.
C24_AuthRequiredSurfaced ==
    (OneRunDone /\ ~Last.probe /\ Saved.last_status = "auth_required") =>
        /\ (Last.got_url /\ Elapsed(Last)) => Count(Last.sent, "auth_required") = 1
        /\ Count(Last.sent, "auth_required") = 0 =>
              (Last.sent = <<>> /\ Saved.last_notification_time = Last.loaded_time)
        /\ Last.loaded_status # "auth_required" => Last.got_url

\* auth_required was entered silently inside the cooldown; the next run,
\* with the cooldown elapsed, sent the notification
C24_Witness ==
    /\ TwoRunsDone
    /\ ~Prev.probe
    /\ Prev.loaded_status = "connected"
    /\ Prev.saved.last_status = "auth_required"
    /\ Prev.sent = <<>>
    /\ Last.loaded_status = "auth_required"
    /\ Last.sent = <<"auth_required">>

\* C28: a run that sent a notification saves as last_notification_time the
\* clock read after the notifier returned, whatever the notifier returned;
\* the next run inside 30 minutes of it finds the cooldown running.
C28_StampedEvenIfUndelivered ==
    /\ (OneRunDone /\ Last.sent # <<>>) =>
          /\ Saved.last_notification_time = Saved.last_check
          /\ Saved.last_notification_time[1] >= Last.time
    /\ (TwoRunsDone /\ Prev.sent # <<>> /\ ~Last.probe
         /\ Last.time - Prev.saved.last_notification_time[1] < CooldownMinutes)
          => ~Last.can_send

\* the only notification of the run was not delivered, and the time is set
C28_Witness ==
    /\ OneRunDone
    /\ Last.failed
    /\ Last.sent = <<"recovered">>
    /\ Saved.last_notification_time = Saved.last_check
    /\ Saved.last_notification_time # Last.loaded_time

\* C29: once a run has completed, the saved last_status is connected,
\* disconnected or auth_required; unknown is read only while no file has
\* been written, and a run that loads unknown saves another status.
C29_UnknownOnlyAtStart ==
    /\ lastRun # <<>> =>
          Saved.last_status \in {"connected", "disconnected", "auth_required"}
    /\ Saved.last_status = "unknown" => (file = Absent /\ runs = 0)
    /\ (OneRunDone /\ Last.loaded_status = "unknown") =>
          Last.saved.last_status # "unknown"

\* the first run found the VPN down and could not bring it up
C29_Witness ==
    /\ OneRunDone
    /\ Last.loaded_status = "unknown"
    /\ ~Last.probe
    /\ ~Last.success
    /\ ~Last.got_url
    /\ Saved.last_status = "disconnected"

----------------------------------------------------------------------------
(* Further properties of the notifier *)

Smaller(a, b) == IF a <= b THEN a ELSE b

\* C22: inside one notifier call the first pause is 10 seconds and each later
\* pause is min(1.5 x the one before, 60 seconds): the pauses never shrink,
\* never exceed 60 seconds and stay at 60 seconds once there.
C22_BackoffPauses ==
    \A i \in 1..Len(n_pauses) :
        /\ i = 1 => n_pauses[i] = Seconds(InitialDelaySeconds)
        /\ n_pauses[i] <= Seconds(MaxDelaySeconds)
        /\ i > 1 =>
              /\ 2 * n_pauses[i] =
                    Smaller(3 * n_pauses[i - 1], 2 * Seconds(MaxDelaySeconds))
              /\ n_pauses[i] >= n_pauses[i - 1]
              /\ n_pauses[i - 1] = Seconds(MaxDelaySeconds) =>
                    n_pauses[i] = Seconds(MaxDelaySeconds)

\* 10, 15, 22.5, 33.75, 50.625 seconds, then 60 and 60 again
C22_Witness ==
    /\ Len(n_pauses) >= 7
    /\ n_pauses[1] = Seconds(InitialDelaySeconds)
    /\ n_pauses[5] = 405
    /\ n_pauses[6] = Seconds(MaxDelaySeconds)
    /\ n_pauses[7] = Seconds(MaxDelaySeconds)

----------------------------------------------------------------------------
(* Further properties of the VPN bot *)

OnServer == {bot_server[i].update_id : i \in 1..Len(bot_server)}
InBatch == {bot_batch[i].update_id : i \in 1..Len(bot_batch)}

\* C30: the offset is one past the update handled last, also when handling
\* it raised, and never decreases; no update is handled twice; what is in the
\* batch or still to be fetched lies at or above the offset, so an update
\* whose handling raised is not fetched again, while every update not yet
\* handled, the rest of an abandoned batch included, is still held by the
\* server for the next poll.
C30_OffsetAdvancesBeforeHandling ==
    /\ [](/\ bot_handled # <<>> => bot_offset = bot_handled[Len(bot_handled)] + 1
          /\ \A i, j \in 1..Len(bot_handled) : i < j => bot_handled[i] < bot_handled[j]
          /\ \A id \in InBatch : id >= bot_offset
          /\ \A id \in bot_raised : id < bot_offset /\ id \notin InBatch
          /\ \A id \in 1..(bot_next_id - 1) : id >= bot_offset => id \in OnServer)
    /\ [][bot_offset' >= bot_offset]_vars

\* handling update 1 raised with update 2 behind it in the batch; update 2
\* was fetched again and handled, update 1 was not
C30_Witness ==
    /\ bot_raised = {1}
    /\ bot_abandoned = {2}
    /\ bot_handled = <<1, 2>>
    /\ bot_offset = 3

----------------------------------------------------------------------------
(* Properties of the report senders *)

Range(seq) == {seq[i] : i \in 1..Len(seq)}

\* C25: in the loop of the encashment sender the last-run date is written
\* for a date only if at least one report for that date was sent; a date with
\* every type skipped or every report empty does not move the marker.
C25_SavedOnlyIfSent ==
    (enc_last # <<>> /\ enc_last[1].saved) => enc_last[1].sent # {}

\* C27: after a run of the encashment sender, every date whose sending
\* failed in it is later than the last-run marker and is in the list of
\* missed dates of the next run.
C27_FailedDateComesBack ==
    enc_pc = "idle" =>
        \A D \in enc_failed :
            LET last_run == get_last_run_date(enc_file)
            IN /\ last_run = <<>> \/ last_run[1] < D
               /\ D \in Range(get_missed_dates(last_run, enc_today, enc_hour))

\* a run in which an earlier date failed and a later one was saved: the marker
\* has gone past the failed date
C27_FailedDateOvertaken ==
    /\ enc_pc = "idle"
    /\ \E D \in enc_failed :
          LET last_run == get_last_run_date(enc_file)
          IN last_run # <<>> /\ last_run[1] > D

\* a date was saved with both types skipped for want of a chat id
C25_SavedWithNoChat ==
    enc_last # <<>> /\ enc_last[1].saved /\ enc_chats = {}

\* the FRANCHISE chat got the final report of day 1 from two runs without --force
C26_DeliveredTwice == lo_delivered[<<1, "FRANCHISE">>] = 2

\* C26: a final report without --force is attempted only at or after 11:00
\* with the marker absent or earlier than today; the marker is written, as
\* today, only by a final-mode run in which nothing failed; and no chat gets
\* the final report of one day twice from runs without --force.
C26_FinalReportOncePerDay ==
    /\ lo_last # <<>> =>
          LET run == lo_last[1]
          IN /\ (run.mode = "final" /\ ~run.force /\ run.attempted) =>
                    /\ run.minutes >= final_check_minutes
                    /\ run.marker = <<>> \/ run.marker[1] < run.today
             /\ run.wrote =>
                    /\ run.mode = "final"
                    /\ ~run.failed
                    /\ late_get_last_run_date(lo_file) = <<run.today>>
    /\ \A k \in DOMAIN lo_delivered : lo_delivered[k] <= 1

====
